---- MODULE Spec2Model ----
(***************************************************************************)
(* Thompson's construction of an NFA from a regular-expression syntax     *)
(* tree (src/src/nfa.ts), with the state/edge graph, the closure          *)
(* (enclosure) and the Cytoscape export (src/src/automaton.ts).            *)
(*                                                                         *)
(* Objects are modelled by a heap: a State object is a position of the     *)
(* sequence `heap` (its identity, in allocation order), and its fields     *)
(* are the record stored there.  A reference is a heap position; the       *)
(* JavaScript value undefined is the reference Undefined.                  *)
(***************************************************************************)
EXTENDS Integers, Sequences, FiniteSets, TLC

\* ------------------------------------------------------------------ bounds
\* Greatest number of nodes of a well-formed syntax tree that is built and
\* exported.
MaxNodes == 4
\* Greatest number of nodes of a syntax tree whose automaton is closed over.
MaxClosedNodes == 3
\* Greatest number of states of an automaton that is closed over.
MaxClosedStates == 6
\* Greatest length of the parts list of an or/cat node.
MaxParts == 2
\* Greatest number of states in the array T handed to enclosure.
MaxT == 2

\* ----------------------------------------------------------------- symbols
\* The reserved epsilon marker (the string "ϵ" of nfa.ts).
EPSILON == "ϵ"
\* The literal symbols the syntax trees carry.
Alphabet == {"a", "b"}
\* The JavaScript value undefined where a string is expected.
UndefinedSymbol == "undefined"
\* The JavaScript value undefined where a State reference is expected.
Undefined == 0

\* ------------------------------------------------------------ syntax trees
\* SyntaxTreeNode: a record with a `type` and, by kind, `text`, `parts`, `sub`.
\* A field a node lacks is absent from the record (reads as undefined).
HasField(node, f) == f \in DOMAIN node

Unary == {"star", "plus", "optional"}
Nary == {"or", "cat"}

Leaves == {[type |-> "empty"]} \cup {[type |-> "text", text |-> c] : c \in Alphabet}

RECURSIVE TreesOfSize(_), PartsOfSize(_, _)
\* The well-formed trees with exactly n nodes.
TreesOfSize(n) ==
  IF n < 1 THEN {}
  ELSE IF n = 1 THEN Leaves
  ELSE {[type |-> t, sub |-> x] : t \in Unary, x \in TreesOfSize(n - 1)}
       \cup {[type |-> t, parts |-> p] :
               t \in Nary, p \in UNION {PartsOfSize(n - 1, k) : k \in 1..MaxParts}}
\* The lists of exactly k well-formed trees with m nodes in all.
PartsOfSize(m, k) ==
  IF k = 0 THEN (IF m = 0 THEN {<< >>} ELSE {})
  ELSE UNION {{<<x>> \o p : x \in TreesOfSize(j), p \in PartsOfSize(m - j, k - 1)} :
                j \in 1..(m - k + 1)}

\* The well-formed trees with at most n nodes.
TreesUpTo(n) == UNION {TreesOfSize(k) : k \in 1..n}
WellFormedTrees == TreesUpTo(IF MaxNodes > MaxClosedNodes THEN MaxNodes ELSE MaxClosedNodes)

\* Nodes that break the documented shape: an unrecognized kind, or a node
\* whose field is missing or empty.
BadNodes ==
  {[type |-> "group"], [type |-> "text"],
   [type |-> "or", parts |-> << >>], [type |-> "cat", parts |-> << >>],
   [type |-> "or"], [type |-> "cat"]}
  \cup {[type |-> t] : t \in Unary}

\* A bad node alone, or directly under one well-formed construct.
MalformedTrees ==
  BadNodes
  \cup {[type |-> t, sub |-> m] : t \in Unary, m \in BadNodes}
  \cup {[type |-> t, parts |-> p] : t \in Nary,
          p \in UNION {{<<m>>, <<m, l>>, <<l, m>>} : m \in BadNodes, l \in Leaves}}

\* What parseRegex may return to a build that is then exported.
Trees == TreesUpTo(MaxNodes) \cup MalformedTrees

\* ------------------------------------------------------------------- state
VARIABLES
  st,             \* the syntax tree parseRegex returned (nfa.ts:116)
  pc,             \* "start", "built", "error", "enclosed", "exported"
  heap,           \* the State objects allocated, in allocation order
  label,          \* the global label counter of build (nfa.ts:119)
  initial_state,  \* Automaton.initial_state (a reference)
  accept_state,   \* Automaton.accept_state (a reference, or Undefined)
  encT,           \* the states handed to the last enclosure call
  encSymbol,      \* the symbol the last enclosure call closed over
  closure,        \* what the last enclosure call returned
  cyto            \* what the last cytograph call returned

vars == <<st, pc, heap, label, initial_state, accept_state,
          encT, encSymbol, closure, cyto>>

\* ---------------------------------------------------------- graph primitive
\* new State(label): the object's fields.
State(l) == [label |-> l, next |-> << >>]
\* new Edge(symbol, to).
Edge(symbol, to) == [symbol |-> symbol, to |-> to]
\* state.addNext(symbol, to) on the object at position `state` of heap h.
addNext(h, state, symbol, to) ==
  [h EXCEPT ![state].next = Append(@, Edge(symbol, to))]

\* ------------------------------------------------------- Thompson's build
\* The build's progress: the heap, the label counter, whether a TypeError
\* was thrown, and the value the last call or allocation produced.
BuildCtx(h, l) == [heap |-> h, label |-> l, thrown |-> FALSE, ret |-> Undefined]

\* A faulty variant of NewState: new State(label++), the counter read before it is advanced.
NewState_PostIncrement(G) ==
  [G EXCEPT !.label = G.label + 1,
            !.heap = Append(G.heap, State(G.label)),
            !.ret = Len(G.heap) + 1]

\* new State(++label): the counter is advanced, then read.
NewState(G) ==
  [G EXCEPT !.label = G.label + 1,
            !.heap = Append(G.heap, State(G.label + 1)),
            !.ret = Len(G.heap) + 1]

\* A member access on undefined: the build throws a TypeError.
Throw(G) == [G EXCEPT !.thrown = TRUE, !.ret = Undefined]

\* state.addNext(symbol, to) in the course of the build; calling it on
\* undefined throws.
AddNext(G, state, symbol, to) ==
  IF G.thrown THEN G
  ELSE IF state = Undefined THEN Throw(G)
  ELSE [G EXCEPT !.heap = addNext(G.heap, state, symbol, to)]

\* return state.
Return(G, state) == IF G.thrown THEN G ELSE [G EXCEPT !.ret = state]

\* st_node.type == "star" || st_node.type == "plus" (nfa.ts:93).
LoopsBack(type) == type \in {"star", "plus"}

\* A faulty variant of Bypasses: the zero-occurrence edge for plus as well.
Bypasses_Always(type) == TRUE
\* A faulty variant of Bypasses: the zero-occurrence edge for optional only.
Bypasses_OptionalOnly(type) == type = "optional"
\* st_node.type == "star" || st_node.type == "optional" (nfa.ts:104).
Bypasses(type) == type \in {"star", "optional"}

RECURSIVE generateGraph(_, _, _), orParts(_, _, _, _, _), catParts(_, _, _, _)
RECURSIVE orAccept(_, _, _, _)
RECURSIVE catParts_Junction(_, _, _, _), catParts_FromInitial(_, _, _, _)
RECURSIVE orAccept_FirstOnly(_, _, _, _)

\* The loop of case "or" over parts[i..]: one entry state per part.
orParts(G, parts, i, initial, last_states) ==
  IF G.thrown \/ i > Len(parts) THEN [G |-> G, last_states |-> last_states]
  ELSE LET G1 == NewState(G)
           next_state == G1.ret
           G2 == AddNext(G1, initial, EPSILON, next_state)
           G3 == generateGraph(G2, parts[i], next_state)
       IN orParts(G3, parts, i + 1, initial, Append(last_states, G3.ret))

\* A faulty variant of orAccept: only the first collected state gets the edge to accept.
orAccept_FirstOnly(G, last_states, i, accept) ==
  IF G.thrown \/ i > Len(last_states) \/ i > 1 THEN G
  ELSE orAccept_FirstOnly(AddNext(G, last_states[i], EPSILON, accept),
                          last_states, i + 1, accept)

\* The second loop of case "or": every collected state gets an edge to accept.
orAccept(G, last_states, i, accept) ==
  IF G.thrown \/ i > Len(last_states) THEN G
  ELSE orAccept(AddNext(G, last_states[i], EPSILON, accept), last_states, i + 1, accept)

\* A faulty variant of catParts: a fresh junction state and an epsilon edge before
\* every part after the first.
catParts_Junction(G, parts, i, prev_state) ==
  IF G.thrown \/ i > Len(parts) THEN Return(G, prev_state)
  ELSE LET J == IF i = 1 THEN Return(G, prev_state)
                ELSE LET N == NewState(G)
                     IN AddNext(N, prev_state, EPSILON, N.ret)
           G1 == generateGraph(J, parts[i], J.ret)
       IN catParts_Junction(G1, parts, i + 1, G1.ret)

\* A faulty variant of catParts: every part is built from the first initial state
\* (prev_state is not threaded).
catParts_FromInitial(G, parts, i, prev_state) ==
  IF G.thrown \/ i > Len(parts) THEN (IF i = 1 THEN Return(G, prev_state) ELSE G)
  ELSE catParts_FromInitial(generateGraph(G, parts[i], prev_state),
                            parts, i + 1, prev_state)

\* The loop of case "cat" over parts[i..]: G.ret is prev_state.
catParts(G, parts, i, prev_state) ==
  IF G.thrown \/ i > Len(parts) THEN Return(G, prev_state)
  ELSE LET G1 == generateGraph(G, parts[i], prev_state)
       IN catParts(G1, parts, i + 1, G1.ret)

\* generateGraph(st_node, initial_state): the result's ret is the state
\* returned, Undefined when the switch matches no case.
generateGraph(G, st_node, initial) ==
  IF G.thrown THEN G
  ELSE IF st_node.type = "empty" THEN
    LET G1 == NewState(G)
        accept == G1.ret
    IN Return(AddNext(G1, initial, EPSILON, accept), accept)
  ELSE IF st_node.type = "text" THEN
    LET letter == IF HasField(st_node, "text") THEN st_node.text ELSE UndefinedSymbol
        G1 == NewState(G)
        accept == G1.ret
    IN Return(AddNext(G1, initial, letter, accept), accept)
  ELSE IF st_node.type = "or" THEN
    IF ~HasField(st_node, "parts") THEN Throw(G)
    ELSE LET L == orParts(G, st_node.parts, 1, initial, << >>)
             G1 == IF L.G.thrown THEN L.G ELSE NewState(L.G)
             accept == G1.ret
         IN Return(orAccept(G1, L.last_states, 1, accept), accept)
  ELSE IF st_node.type = "cat" THEN
    IF ~HasField(st_node, "parts") THEN Throw(G)
    ELSE catParts(G, st_node.parts, 1, initial)
  ELSE IF st_node.type \in Unary THEN
    LET G1 == NewState(G)
        temp_initial_state == G1.ret
        G2 == AddNext(G1, initial, EPSILON, temp_initial_state)
        \* generateGraph(undefined, ...) throws on st_node.type
        G3 == IF G2.thrown THEN G2
              ELSE IF ~HasField(st_node, "sub") THEN Throw(G2)
              ELSE generateGraph(G2, st_node.sub, temp_initial_state)
        temp_accept_state == G3.ret
        G4 == IF LoopsBack(st_node.type)
              THEN AddNext(G3, temp_accept_state, EPSILON, temp_initial_state)
              ELSE G3
        G5 == IF G4.thrown THEN G4 ELSE NewState(G4)
        accept == G5.ret
        G6 == AddNext(G5, temp_accept_state, EPSILON, accept)
        G7 == IF Bypasses(st_node.type)
              THEN AddNext(G6, initial, EPSILON, accept)
              ELSE G6
    IN Return(G7, accept)
  ELSE Return(G, Undefined)

\* build(regex) after parseRegex: label 0 for the initial state, then the
\* recursive construction from it.
build(tree) ==
  LET G0 == BuildCtx(<<State(0)>>, 0)
  IN generateGraph(G0, tree, 1)

\* ---------------------------------------------------------------- closure
\* The argument T of enclosure: a single State or an array of States.
SingleState(s) == [array |-> FALSE, state |-> s]
StateArray(a) == [array |-> TRUE, items |-> a]
\* Array.isArray(T).
IsArray(T) == T.array

\* reacheable_states.has(state), the Set kept in insertion order.
Has(reacheable_states, state) ==
  \E i \in 1..Len(reacheable_states) : reacheable_states[i] = state

RECURSIVE DFS(_, _, _, _), DFSEdges(_, _, _, _, _), DFSAll(_, _, _, _, _)
RECURSIVE DFSEdges_AnySymbol(_, _, _, _, _), DFSEdges_OneStep(_, _, _, _, _)
\* DFS(state) of enclosure: returns reacheable_states after the call.
DFS(h, reacheable_states, state, symbol) ==
  IF Has(reacheable_states, state) THEN reacheable_states
  ELSE DFSEdges(h, Append(reacheable_states, state), state, 1, symbol)
\* A faulty variant of DFSEdges: the edge's symbol is not compared.
DFSEdges_AnySymbol(h, reacheable_states, state, i, symbol) ==
  IF i > Len(h[state].next) THEN reacheable_states
  ELSE LET edge == h[state].next[i]
       IN DFSEdges_AnySymbol(h, DFS(h, reacheable_states, edge.to, symbol),
                             state, i + 1, symbol)

\* A faulty variant of DFSEdges: the target is added but not searched from.
DFSEdges_OneStep(h, reacheable_states, state, i, symbol) ==
  IF i > Len(h[state].next) THEN reacheable_states
  ELSE LET edge == h[state].next[i]
           after == IF edge.symbol = symbol /\ ~Has(reacheable_states, edge.to)
                    THEN Append(reacheable_states, edge.to)
                    ELSE reacheable_states
       IN DFSEdges_OneStep(h, after, state, i + 1, symbol)

\* The loop of DFS over state.next[i..].
DFSEdges(h, reacheable_states, state, i, symbol) ==
  IF i > Len(h[state].next) THEN reacheable_states
  ELSE LET edge == h[state].next[i]
           after == IF edge.symbol = symbol
                    THEN DFS(h, reacheable_states, edge.to, symbol)
                    ELSE reacheable_states
       IN DFSEdges(h, after, state, i + 1, symbol)
\* for (const state of T) DFS(state), from T[i].
DFSAll(h, reacheable_states, items, i, symbol) ==
  IF i > Len(items) THEN reacheable_states
  ELSE DFSAll(h, DFS(h, reacheable_states, items[i], symbol), items, i + 1, symbol)

\* The default parameter: an omitted (undefined) symbol is the epsilon marker.
SymbolOrDefault(arg) == IF arg = UndefinedSymbol THEN EPSILON ELSE arg

\* enclosure(T, symbol): Array.from(reacheable_states).
enclosure(h, T, symbol) ==
  IF IsArray(T) THEN DFSAll(h, << >>, T.items, 1, symbol)
  ELSE DFS(h, << >>, T.state, symbol)

\* ----------------------------------------------------------------- export
\* The vertex descriptor { data: { id, label } }.
VertexDescriptor(s) == [data |-> [id |-> s.label, label |-> s.label]]
\* The edge descriptor { data: { source, target, label } }.
EdgeDescriptor(h, s, edge) ==
  [data |-> [source |-> s.label, target |-> h[edge.to].label, label |-> edge.symbol]]

RECURSIVE cytoDFS(_, _, _), cytoEdges(_, _, _, _), cytoEdges_SkipVisited(_, _, _, _)
\* DFS(state) of cytograph: acc holds the visited set and the states array.
cytoDFS(h, acc, state) ==
  IF state \in acc.visited THEN acc
  ELSE cytoEdges(h, [visited |-> acc.visited \cup {state},
                     states |-> Append(acc.states, VertexDescriptor(h[state]))],
                 state, 1)
\* A faulty variant of cytoEdges: an edge into an already visited state is not reported.
cytoEdges_SkipVisited(h, acc, state, i) ==
  IF i > Len(h[state].next) THEN acc
  ELSE LET edge == h[state].next[i]
           pushed == IF edge.to \in acc.visited THEN acc
                     ELSE [acc EXCEPT
                             !.states = Append(@, EdgeDescriptor(h, h[state], edge))]
       IN cytoEdges_SkipVisited(h, cytoDFS(h, pushed, edge.to), state, i + 1)

\* The loop of that DFS over state.next[i..]: the descriptor of the edge is
\* pushed (to states), then the target is visited.
cytoEdges(h, acc, state, i) ==
  IF i > Len(h[state].next) THEN acc
  ELSE LET edge == h[state].next[i]
           pushed == [acc EXCEPT !.states = Append(@, EdgeDescriptor(h, h[state], edge))]
       IN cytoEdges(h, cytoDFS(h, pushed, edge.to), state, i + 1)

\* cytograph(): states.concat(edges), where edges is never pushed to.
cytograph(h, initial) ==
  LET edges == << >>
  IN cytoDFS(h, [visited |-> {}, states |-> << >>], initial).states \o edges

\* -------------------------------------------------------------- behaviour
Start ==
  /\ pc = "start"
  /\ heap = << >>
  /\ label = 0
  /\ initial_state = Undefined
  /\ accept_state = Undefined
  /\ encT = StateArray(<< >>)
  /\ encSymbol = EPSILON
  /\ closure = << >>
  /\ cyto = << >>

\* What parseRegex returns to a build whose automaton is then closed over.
ClosedTrees ==
  {t \in TreesUpTo(MaxClosedNodes) : Len(build(t).heap) <= MaxClosedStates}

Init == st \in Trees /\ Start
InitClosed == st \in ClosedTrees /\ Start

\* new NFA(regex): the Automaton constructor assigns what build returns; a
\* build that throws assigns nothing and leaves no automaton.
Build ==
  /\ pc = "start"
  /\ LET G == build(st)
     IN IF G.thrown
        THEN /\ pc' = "error"
             /\ UNCHANGED <<heap, label, initial_state, accept_state>>
        ELSE /\ pc' = "built"
             /\ heap' = G.heap
             /\ label' = G.label
             /\ initial_state' = 1
             /\ accept_state' = G.ret
  /\ UNCHANGED <<st, encT, encSymbol, closure, cyto>>

\* The states of the automaton: references into the heap.
Refs == 1..Len(heap)

\* The non-empty arrays of at most MaxT states (a state may occur twice).
StateArrays == UNION {[1..n -> Refs] : n \in 1..MaxT}

\* A call of enclosure(T, arg) on the built automaton.
Call(T, arg) ==
  /\ encT' = T
  /\ encSymbol' = SymbolOrDefault(arg)
  /\ closure' = enclosure(heap, T, SymbolOrDefault(arg))
  /\ pc' = "enclosed"
  /\ UNCHANGED <<st, heap, label, initial_state, accept_state, cyto>>

\* nfa.enclosure(T, symbol?) with a single State or an array of States.
Enclosure ==
  /\ pc = "built"
  /\ \E arg \in Alphabet \cup {EPSILON, UndefinedSymbol} :
       \/ \E s \in Refs : Call(SingleState(s), arg)
       \/ \E a \in StateArrays : Call(StateArray(a), arg)

\* nfa.cytograph().
Cytograph ==
  /\ pc = "built"
  /\ cyto' = cytograph(heap, initial_state)
  /\ pc' = "exported"
  /\ UNCHANGED <<st, heap, label, initial_state, accept_state, encT, encSymbol, closure>>

\* Construction and export, of trees of up to MaxNodes nodes and of
\* malformed trees.
Next ==
  \/ Build
  \/ Cytograph

Spec == Init /\ [][Next]_vars

\* Construction, closure and export, of trees of up to MaxClosedNodes nodes.
NextClosed ==
  \/ Build
  \/ Enclosure
  \/ Cytograph

SpecClosed == InitClosed /\ [][NextClosed]_vars

\* ================================================================= claims
\* The tree has the documented shape (spec section 6).
WellFormed == st \in WellFormedTrees
\* build returned: the automaton exists.
Built == pc \in {"built", "enclosed", "exported"}
\* The members of a sequence.
Range(seq) == {seq[i] : i \in 1..Len(seq)}
\* No member twice.
NoDuplicates(seq) == Cardinality(Range(seq)) = Len(seq)
\* The number of transitions of a heap.
RECURSIVE SumNext(_, _)
SumNext(h, n) == IF n = 0 THEN 0 ELSE Len(h[n].next) + SumNext(h, n - 1)
NumTransitions(h) == SumNext(h, Len(h))
NumStates(h) == Len(h)

\* The states reachable from the states S by zero or more transitions whose
\* symbol is in syms: the least fixed point, computed breadth-wise.
RECURSIVE ReachableBy(_, _, _)
ReachableBy(h, S, syms) ==
  LET targets(s) == {h[s].next[i].to :
                       i \in {k \in 1..Len(h[s].next) : h[s].next[k].symbol \in syms}}
      step == S \cup UNION {targets(s) : s \in S}
  IN IF \A x \in step : x \in S THEN S ELSE ReachableBy(h, step, syms)
\* Every symbol an edge can carry.
AnySymbol == Alphabet \cup {EPSILON, UndefinedSymbol}

\* The tree matches the empty string.
RECURSIVE Nullable(_)
Nullable(node) ==
  IF node.type = "empty" THEN TRUE
  ELSE IF node.type = "text" THEN FALSE
  ELSE IF node.type = "or" THEN \E i \in 1..Len(node.parts) : Nullable(node.parts[i])
  ELSE IF node.type = "cat" THEN \A i \in 1..Len(node.parts) : Nullable(node.parts[i])
  ELSE IF node.type = "plus" THEN Nullable(node.sub)
  ELSE TRUE

\* The root is a repetition: its inner-initial state is the first state
\* allocated after the global initial state.
InnerInitial == initial_state + 1
\* The last enclosure call closed the construct's initial state over epsilon.
ClosedInitialOverEpsilon ==
  /\ pc = "enclosed"
  /\ encSymbol = EPSILON
  /\ encT \in {SingleState(initial_state), StateArray(<<initial_state>>)}

\* ---------------------------------------------------------------------- C1
\* C1: after the build of a well-formed tree, the labels of the states
\* allocated are 0, 1, 2, ... in allocation order (pairwise distinct,
\* non-negative, strictly increasing, the initial state's label 0), and the
\* counter stands at the number of allocations after the initial state.
C1_LabelsIncrease ==
  (Built /\ WellFormed) =>
    /\ heap[initial_state].label = 0
    /\ \A i \in Refs : heap[i].label \in Nat
    /\ \A i, j \in Refs : i < j => heap[i].label < heap[j].label
    /\ \A i \in Refs : heap[i].label = i - 1
    /\ label = Len(heap) - 1
C1_Witness == pc = "built" /\ WellFormed /\ Len(heap) >= 6

\* ---------------------------------------------------------------------- C9
\* C9: a build whose tree is malformed (unrecognized kind, empty or missing
\* parts, missing symbol, missing sub) ends in an error and returns no
\* automaton.
C9_MalformedBuildFails ==
  (pc # "start" /\ st \in MalformedTrees) => pc = "error"

\* --------------------------------------------------------------------- C10
\* C10: after the build of a well-formed tree, the accept state is the state
\* allocated last and carries the greatest label, has no outgoing transition
\* and differs from the initial state; no transition targets the initial
\* state; every state is reachable from the initial state and reaches the
\* accept state.
C10_AcceptIsLastAndSink ==
  (Built /\ WellFormed) =>
    /\ accept_state = Len(heap)
    /\ \A r \in Refs : heap[r].label <= heap[accept_state].label
    /\ heap[accept_state].next = << >>
    /\ accept_state # initial_state
    /\ \A r \in Refs : \A i \in 1..Len(heap[r].next) : heap[r].next[i].to # initial_state
    /\ ReachableBy(heap, {initial_state}, AnySymbol) = Refs
    /\ \A r \in Refs : accept_state \in ReachableBy(heap, {r}, AnySymbol)
C10_Witness ==
  pc = "built" /\ WellFormed /\ st.type = "cat" /\ Len(st.parts) = 2 /\ Len(heap) >= 5

\* ---------------------------------------------------------------------- C2
\* C2 as stated: in the automaton of plus(X), the epsilon-closure of the
\* initial state holds X's initial state and does not hold the accept state.
C2_PlusClosureExcludesAccept ==
  (ClosedInitialOverEpsilon /\ WellFormed /\ st.type = "plus") =>
    /\ Has(closure, InnerInitial)
    /\ ~Has(closure, accept_state)
\* C2 amended: in the automaton of plus(X), the epsilon-closure of the
\* initial state holds X's initial state; the initial state has no transition
\* to the accept state; and the closure holds the accept state exactly when X
\* matches the empty string.
C2_PlusClosure ==
  (ClosedInitialOverEpsilon /\ WellFormed /\ st.type = "plus") =>
    /\ Has(closure, InnerInitial)
    /\ \A i \in 1..Len(heap[initial_state].next) :
         heap[initial_state].next[i].to # accept_state
    /\ Has(closure, accept_state) <=> Nullable(st.sub)
C2_Witness ==
  /\ ClosedInitialOverEpsilon /\ WellFormed /\ st.type = "plus"
  /\ ~Nullable(st.sub) /\ Len(closure) >= 3

\* ---------------------------------------------------------------------- C3
\* C3: in the automata of star(X) and optional(X), the epsilon-closure of the
\* initial state holds the accept state and X's initial state; in optional(X)
\* the one transition that targets X's initial state is the epsilon
\* transition from the construct's initial state.
C3_StarOptionalClosure ==
  (ClosedInitialOverEpsilon /\ WellFormed /\ st.type \in {"star", "optional"}) =>
    /\ Has(closure, accept_state)
    /\ Has(closure, InnerInitial)
    /\ st.type = "optional" =>
         /\ \A r \in Refs : \A i \in 1..Len(heap[r].next) :
              heap[r].next[i].to = InnerInitial =>
                r = initial_state /\ heap[r].next[i].symbol = EPSILON
         /\ Cardinality({i \in 1..Len(heap[initial_state].next) :
                           heap[initial_state].next[i].to = InnerInitial}) = 1
C3_Witness ==
  /\ ClosedInitialOverEpsilon /\ WellFormed /\ st.type = "optional"
  /\ st.sub.type = "star" /\ Has(closure, accept_state)

\* ---------------------------------------------------------------------- C4
\* The automaton built from a tree alone.
Alone(tree) == build(tree).heap
\* The root is cat([X, Y]) or or([X, Y]) of a well-formed tree.
RootOfTwo(type) ==
  Built /\ WellFormed /\ st.type = type /\ Len(st.parts) = 2

\* C4 as stated: cat([X, Y]) has as many states, and as many transitions, as
\* the automata of X alone and of Y alone have together.
C4_CatSumsStatesAndTransitions ==
  RootOfTwo("cat") =>
    /\ NumStates(heap) = NumStates(Alone(st.parts[1])) + NumStates(Alone(st.parts[2]))
    /\ NumTransitions(heap) =
         NumTransitions(Alone(st.parts[1])) + NumTransitions(Alone(st.parts[2]))
\* C4 amended: the transitions add up; the states add up less one, the state
\* where X ends and Y starts being shared (the states allocated after the
\* initial state add up exactly).
C4_CatSizeLaw ==
  RootOfTwo("cat") =>
    /\ NumStates(heap) =
         NumStates(Alone(st.parts[1])) + NumStates(Alone(st.parts[2])) - 1
    /\ NumStates(heap) - 1 =
         (NumStates(Alone(st.parts[1])) - 1) + (NumStates(Alone(st.parts[2])) - 1)
    /\ NumTransitions(heap) =
         NumTransitions(Alone(st.parts[1])) + NumTransitions(Alone(st.parts[2]))
C4_Witness ==
  pc = "built" /\ RootOfTwo("cat") /\ st.parts[2].type \in Unary /\ Len(heap) >= 5

\* ---------------------------------------------------------------------- C5
\* C5 as stated: or([X, Y]) has the states of X alone and of Y alone and 3
\* more, and their transitions and 4 more.
C5_OrAddsThreeStatesFourTransitions ==
  RootOfTwo("or") =>
    /\ NumStates(heap) =
         NumStates(Alone(st.parts[1])) + NumStates(Alone(st.parts[2])) + 3
    /\ NumTransitions(heap) =
         NumTransitions(Alone(st.parts[1])) + NumTransitions(Alone(st.parts[2])) + 4
\* C5 amended: the transitions are those of X and of Y and 4 more; the states
\* are those of X alone and of Y alone and 2 more (the states allocated after
\* the initial state are those X and Y allocate, and 3 more).
C5_OrSizeLaw ==
  RootOfTwo("or") =>
    /\ NumStates(heap) =
         NumStates(Alone(st.parts[1])) + NumStates(Alone(st.parts[2])) + 2
    /\ NumStates(heap) - 1 =
         (NumStates(Alone(st.parts[1])) - 1) + (NumStates(Alone(st.parts[2])) - 1) + 3
    /\ NumTransitions(heap) =
         NumTransitions(Alone(st.parts[1])) + NumTransitions(Alone(st.parts[2])) + 4
C5_Witness ==
  pc = "built" /\ RootOfTwo("or") /\ st.parts[1].type \in Unary /\ Len(heap) >= 7

\* ---------------------------------------------------------------------- C6
\* The states handed to the last enclosure call, as a list.
InputItems == IF IsArray(encT) THEN encT.items ELSE <<encT.state>>
\* State u has a transition with the closed-over symbol to state v.
Steps(u, v) ==
  \E i \in 1..Len(heap[u].next) :
    heap[u].next[i].symbol = encSymbol /\ heap[u].next[i].to = v
\* The positions before k of the result whose state steps to the k-th.
Discoverers(k) == {j \in 1..(k - 1) : Steps(closure[j], closure[k])}
\* The greatest member of a non-empty set of numbers.
Greatest(S) == CHOOSE x \in S : \A y \in S : y <= x

\* C6: enclosure(T, s) returns, without duplicates, exactly the states
\* reachable from a state of T by zero or more transitions with symbol s, in
\* depth-first discovery order: the first is T's first state; a state no
\* earlier state steps to is a state of T; any other state is discovered from
\* the latest earlier state that steps to it, and the states between the two
\* are reachable from that discoverer.
C6_EnclosureIsReachability ==
  pc = "enclosed" =>
    /\ NoDuplicates(closure)
    /\ Range(closure) = ReachableBy(heap, Range(InputItems), {encSymbol})
    /\ Range(InputItems) \subseteq Range(closure)
    /\ closure[1] = InputItems[1]
    /\ \A k \in 1..Len(closure) :
         LET D == Discoverers(k)
         IN IF D = {}
            THEN closure[k] \in Range(InputItems)
            ELSE LET d == Greatest(D)
                     below == ReachableBy(heap, {closure[d]}, {encSymbol})
                 IN \A m \in (d + 1)..(k - 1) : closure[m] \in below
C6_Witness ==
  /\ pc = "enclosed" /\ encSymbol = "a" /\ Len(closure) >= 2 /\ st.type = "cat"
  /\ \E r \in ReachableBy(heap, Range(InputItems), AnySymbol) : ~Has(closure, r)

\* ---------------------------------------------------------------------- C7
\* The list seq without its i-th member.
Without(seq, i) == SubSeq(seq, 1, i - 1) \o SubSeq(seq, i + 1, Len(seq))
\* The sub-lists of seq: some of its members, in the order seq has them.
RECURSIVE SubLists(_)
SubLists(seq) ==
  {seq} \cup UNION {SubLists(Without(seq, i)) : i \in 1..Len(seq)}
\* The orderings of seq.
Orderings(seq) ==
  {[i \in 1..Len(seq) |-> seq[f[i]]] :
     f \in {g \in [1..Len(seq) -> 1..Len(seq)] : Range(g) = 1..Len(seq)}}

\* C7: closing the result again gives the same set; closing any of the given
\* states alone, or any sub-list of them, gives a subset of the result;
\* closing the given states in any order gives the same set; no result has
\* duplicates.
C7_EnclosureIdempotentMonotone ==
  pc = "enclosed" =>
    LET again == enclosure(heap, StateArray(closure), encSymbol)
        whole == Range(closure)
    IN /\ Range(again) = whole
       /\ NoDuplicates(closure)
       /\ NoDuplicates(again)
       /\ \A p \in SubLists(InputItems) :
            LET part == enclosure(heap, StateArray(p), encSymbol)
            IN Range(part) \subseteq whole /\ NoDuplicates(part)
       /\ \A s \in Range(InputItems) :
            Range(enclosure(heap, SingleState(s), encSymbol)) \subseteq whole
       /\ \A p \in Orderings(InputItems) :
            LET other == enclosure(heap, StateArray(p), encSymbol)
            IN Range(other) = whole /\ NoDuplicates(other)
C7_Witness ==
  /\ pc = "enclosed" /\ IsArray(encT) /\ Len(encT.items) = 2
  /\ encT.items[1] # encT.items[2] /\ encSymbol = EPSILON
  /\ Len(closure) >= 4 /\ st.type = "star"
  /\ Range(enclosure(heap, SingleState(encT.items[1]), encSymbol)) # Range(closure)
  /\ Range(enclosure(heap, SingleState(encT.items[2]), encSymbol)) # Range(closure)

\* ---------------------------------------------------------------------- C8
IsVertex(d) == "id" \in DOMAIN d.data
IsEdge(d) == "source" \in DOMAIN d.data
\* The states reachable from the initial state.
Reachable == ReachableBy(heap, {initial_state}, AnySymbol)
\* The positions of cyto that hold vertex descriptors.
VertexPositions == {k \in 1..Len(cyto) : IsVertex(cyto[k])}
\* The edge descriptors of cyto whose source is the state r, in order.
EdgesFrom(r) ==
  LET from(d) == IsEdge(d) /\ d.data.source = heap[r].label IN SelectSeq(cyto, from)
\* The descriptors of the transitions of state r, in the order they were added.
DescriptorsOf(r) ==
  [i \in 1..Len(heap[r].next) |-> EdgeDescriptor(heap, heap[r], heap[r].next[i])]

\* C8: cytograph emits one vertex descriptor for each state reachable from
\* the initial state, and for each such state one edge descriptor for each of
\* its transitions, in the order they were added, edges into visited states
\* too; a vertex other than the first directly follows the edge it was
\* discovered by (depth-first discovery order); every source and target is
\* the label of an emitted vertex.
C8_ExportComplete ==
  pc = "exported" =>
    /\ \A k \in 1..Len(cyto) : IsVertex(cyto[k]) \/ IsEdge(cyto[k])
    /\ \A j, k \in VertexPositions : cyto[j].data.id = cyto[k].data.id => j = k
    /\ {cyto[k].data.id : k \in VertexPositions} = {heap[r].label : r \in Reachable}
    /\ \A k \in VertexPositions : cyto[k].data.label = cyto[k].data.id
    /\ \A r \in Reachable : EdgesFrom(r) = DescriptorsOf(r)
    /\ Len(cyto) = Cardinality(Reachable) + NumTransitions([r \in Refs |->
                     IF r \in Reachable THEN heap[r] ELSE State(heap[r].label)])
    /\ \A k \in 1..Len(cyto) : IsEdge(cyto[k]) =>
         /\ \E j \in VertexPositions : cyto[j].data.id = cyto[k].data.source
         /\ \E j \in VertexPositions : cyto[j].data.id = cyto[k].data.target
    /\ IsVertex(cyto[1]) /\ cyto[1].data.id = heap[initial_state].label
    /\ \A k \in VertexPositions : k > 1 =>
         IsEdge(cyto[k - 1]) /\ cyto[k - 1].data.target = cyto[k].data.id
C8_Witness ==
  /\ pc = "exported" /\ WellFormed /\ st.type = "or" /\ Len(st.parts) = 2
  /\ st.parts[1].type = "plus"
  /\ \E k \in 1..Len(cyto) : \E j \in VertexPositions :
       IsEdge(cyto[k]) /\ j < k /\ cyto[j].data.id = cyto[k].data.target
====
